---- MODULE Spec2Model ----
\* Conway's Game of Life on a toroidal grid: the Universe of src/src/lib.rs
\* and the staged builder of src/src/universe_builder.rs.
EXTENDS Integers, Sequences, FiniteSets, TLC

\* ---------------------------------------------------------------- bounds
\* Largest width / height the builder is given in Spec.
MaxDim == 2
\* Largest width / height the builder is given in SpecShapes.
MaxShapeDim == 6
\* Largest number of tick calls in Spec / in SpecShapes.
MaxTicks == 2
MaxShapeTicks == 4
\* Largest number of toggle_cell calls in Spec.
MaxEdits == 2
\* Largest width * height for which random() is explored (every outcome of
\* the draws is a separate successor); larger grids start from empty().
MaxRandomCells == 4
\* The width above MaxDim the builder is given in SpecHost: the first with a
\* non-empty chunk in Display::fmt (heights go to MaxDim).
MaxHostWidth == 8
\* Longest coordinate list a set_cells call is given in SpecHost, and the
\* largest number of set_cells calls there.
MaxCoords == 1
MaxSets == 1
\* Largest value of the selector a tick is started with in SpecSelector.
MaxSelector == 3

\* ---------------------------------------------------------------- Cell
\* enum Cell { Dead = 0, Alive = 1 }, repr(u8)
Dead == 0
Alive == 1
Cell == {Dead, Alive}

\* toggle with the Alive arm returning Alive
toggle_sticky(c) == IF c = Dead THEN Alive ELSE Alive

\* Cell::toggle
toggle(c) == IF c = Dead THEN Alive ELSE Dead

\* ---------------------------------------------------------------- state
VARIABLES
    builder,  \* the UniverseBuilder<T> value: its stage T and T's fields
    size,     \* Universe.size : [width, height]
    active,   \* Universe.active : index of the active buffer
    cells,    \* Universe.cells : <<buffer 0, buffer 1>>, each a sequence of Cell
    last,     \* history: the last call, its arguments, whether it panicked
    prev,     \* history: active and cells as they were when the last call began,
              \* and the call before it
    ticks,    \* history: number of tick calls so far
    edits,    \* history: number of toggle_cell / set_cells calls so far
    seed      \* history: the active buffer as the last set_cells call left it,
              \* and the number of ticks made before that call

vars == <<builder, size, active, cells, last, prev, ticks, edits, seed>>

\* ---------------------------------------------------------------- Size
\* Size::get_index
get_index(sz, row, column) == row * sz.width + column

\* get_address dividing by the height
get_address_by_height(sz, index) == <<index \div sz.height, index % sz.height>>

\* Size::get_address
get_address(sz, index) == <<index \div sz.width, index % sz.width>>

\* A buffer is a Vec<Cell>; Rust index i is TLA+ index i + 1.
At(buf, index) == buf[index + 1]
InRange(buf, index) == index >= 0 /\ index < Len(buf)

\* ------------------------------------------------- live_neighbor_count
\* north clamped at row 0 instead of wrapped
north_clamped(sz, row) == IF row = 0 THEN 0 ELSE row - 1

north(sz, row) == IF row = 0 THEN sz.height - 1 ELSE row - 1
\* south stepping past the last row instead of wrapping
south_unwrapped(sz, row) == row + 1

south(sz, row) == IF row = sz.height - 1 THEN 0 ELSE row + 1
west(sz, column) == IF column = 0 THEN sz.width - 1 ELSE column - 1
\* east stepping past the last column instead of wrapping
east_unwrapped(sz, column) == column + 1

east(sz, column) == IF column = sz.width - 1 THEN 0 ELSE column + 1

\* the array `neighbors`, in the order of the source
neighbors(sz, row, column) ==
    << <<north(sz, row), west(sz, column)>>,
       <<north(sz, row), column>>,
       <<north(sz, row), east(sz, column)>>,
       <<row, west(sz, column)>>,
       <<row, east(sz, column)>>,
       <<south(sz, row), west(sz, column)>>,
       <<south(sz, row), column>>,
       <<south(sz, row), east(sz, column)>> >>

\* The indices read by get_unchecked, in order.
neighbor_indices(sz, row, column) ==
    LET nb == neighbors(sz, row, column)
    IN  [k \in 1..8 |-> get_index(sz, nb[k][1], nb[k][2])]

\* *active_cells.get_unchecked(index) as u8: outside the buffer the read is
\* undefined behaviour, and yields `wild`, which the caller chooses freely
\* (Tick draws it from Cell: two values tell whether an outcome depends on it).
get_unchecked(active_cells, index, wild) ==
    IF InRange(active_cells, index) THEN At(active_cells, index) ELSE wild

\* the loop `count += ...` over the eight neighbours
live_neighbor_count(sz, active_cells, row, column, wild) ==
    LET nb == neighbors(sz, row, column)
        cell(k) == get_unchecked(active_cells, get_index(sz, nb[k][1], nb[k][2]), wild)
    IN  cell(1) + cell(2) + cell(3) + cell(4) + cell(5) + cell(6) + cell(7) + cell(8)

\* ---------------------------------------------------------------- tick
\* the reproduction arm taking any count up to three
next_cell_loose(cell, live_neighbors) ==
    IF cell = Alive /\ live_neighbors < 2 THEN Dead
    ELSE IF cell = Alive /\ live_neighbors \in {2, 3} THEN Alive
    ELSE IF cell = Alive /\ live_neighbors > 3 THEN Dead
    ELSE IF cell = Dead /\ live_neighbors <= 3 THEN Alive
    ELSE cell

\* the match on (cell, live_neighbors), arm by arm
next_cell(cell, live_neighbors) ==
    IF cell = Alive /\ live_neighbors < 2 THEN Dead
    ELSE IF cell = Alive /\ live_neighbors \in {2, 3} THEN Alive
    ELSE IF cell = Alive /\ live_neighbors > 3 THEN Dead
    ELSE IF cell = Dead /\ live_neighbors = 3 THEN Alive
    ELSE cell

\* the match computing next_buffer; -1 stands for the panic arm
next_buffer(act, nbuffers) ==
    IF act < nbuffers - 1 THEN act + 1
    ELSE IF act = nbuffers - 1 THEN 0
    ELSE -1

\* `row` and `col` of the generation loop: declared `let mut ... = 0usize`
\* before the loop and never assigned inside it.
tick_row(idx) == 0
tick_col(idx) == 0

\* tick with one buffer: the new cells written over the active buffer
tick_in_place(sz, act, cs, wild) ==
    IF next_buffer(act, Len(cs)) = -1 \/ act \notin {0, 1}
    THEN [panic |-> TRUE, active |-> act, cells |-> cs]
    ELSE
        LET active_cells == cs[act + 1]
            computed(idx) ==
                next_cell(At(active_cells, idx),
                          live_neighbor_count(sz, active_cells,
                                              tick_row(idx), tick_col(idx), wild))
            written == [i \in 1..Len(active_cells) |-> computed(i - 1)]
        IN  [panic |-> FALSE,
             active |-> next_buffer(act, Len(cs)),
             cells |-> [cs EXCEPT ![act + 1] = written, ![(1 - act) + 1] = written]]

\* Universe::tick as a function of the Universe; the result says whether
\* the call panicked and holds the fields as the call leaves them.
tick(sz, act, cs, wild) ==
    IF next_buffer(act, Len(cs)) = -1 \/ act \notin {0, 1}
    THEN [panic |-> TRUE, active |-> act, cells |-> cs]
    ELSE
        LET active_cells == cs[act + 1]
            nextIx == (1 - act) + 1
            next == cs[nextIx]
            computed(idx) ==
                next_cell(At(active_cells, idx),
                          live_neighbor_count(sz, active_cells,
                                              tick_row(idx), tick_col(idx), wild))
            \* next[idx] = next_cell is bounds-checked: the loop panics at
            \* the first idx >= next.len(), keeping the earlier writes
            written == [i \in 1..Len(next) |->
                           IF i <= Len(active_cells) THEN computed(i - 1) ELSE next[i]]
            panic == Len(active_cells) > Len(next)
        IN  [panic |-> panic,
             active |-> IF panic THEN act ELSE next_buffer(act, Len(cs)),
             cells |-> [cs EXCEPT ![nextIx] = written]]

\* ------------------------------------------------ toggle_cell / set_cells
\* Universe::toggle_cell: the slice index panics when idx >= len
toggle_cell(sz, act, cs, row, col) ==
    LET idx == get_index(sz, row, col)
    IN  IF InRange(cs[act + 1], idx)
        THEN [panic |-> FALSE, cells |-> [cs EXCEPT ![act + 1][idx + 1] = toggle(@)]]
        ELSE [panic |-> TRUE, cells |-> cs]

\* Universe::set_cells: one write per listed pair, in order; the slice index
\* panics at the first idx >= len, keeping the earlier writes
RECURSIVE set_cells(_, _, _, _)
set_cells(sz, act, cs, list) ==
    IF list = <<>> THEN [panic |-> FALSE, cells |-> cs]
    ELSE LET idx == get_index(sz, Head(list)[1], Head(list)[2])
         IN  IF InRange(cs[act + 1], idx)
             THEN set_cells(sz, act, [cs EXCEPT ![act + 1][idx + 1] = Alive], Tail(list))
             ELSE [panic |-> TRUE, cells |-> cs]

\* Universe::get_cells
get_cells(act, cs) == cs[act + 1]

\* ---------------------------------------------------------------- builder
EmptyUniverse == [stage |-> "EmptyUniverse"]
UniverseWithWidth(width) == [stage |-> "UniverseWithWidth", width |-> width]
UniverseWithHeight(height) == [stage |-> "UniverseWithHeight", height |-> height]
\* the two fields stored crosswise
ScaledUniverse_swapped(width, height) ==
    [stage |-> "ScaledUniverse", width |-> height, height |-> width]

ScaledUniverse(width, height) ==
    [stage |-> "ScaledUniverse", width |-> width, height |-> height]
\* the builder was consumed by the finalize operation `by`
Finalized(by) == [stage |-> "Universe", by |-> by]

\* random allocating as default() does: capacity reserved, nothing pushed
random_unfilled(width, height, draws) ==
    LET cells0 == <<>>
    IN  [i \in 1..Len(cells0) |-> IF draws[i] THEN Alive ELSE Dead]

\* UniverseBuilder<ScaledUniverse>::random; draws[i] is `random() < 0.5`
random(width, height, draws) ==
    [i \in 1..(width * height) |-> IF draws[i] THEN Alive ELSE Dead]

\* UniverseBuilder<ScaledUniverse>::empty
empty(width, height) == [i \in 1..(width * height) |-> Dead]

\* UniverseBuilder<ScaledUniverse>::default: Vec::with_capacity gives a
\* vector of length 0, and the loop runs over 0..cells.len()
default(width, height) ==
    LET cells0 == <<>>
    IN  [i \in 1..Len(cells0) |->
            IF (i - 1) % 2 = 0 \/ (i - 1) % 7 = 0 THEN Alive ELSE Dead]

\* the second buffer made as a copy of the first
NewUniverse_cloned(width, height, buf) ==
    [size |-> [width |-> width, height |-> height],
     active |-> 0,
     cells |-> <<buf, buf>>]

\* The Universe a finalize operation yields. The builder's struct literal
\* names only width, height and cells; the selector and the second buffer
\* are as the specification describes them: selector 0, idle buffer all Dead.
NewUniverse(width, height, buf) ==
    [size |-> [width |-> width, height |-> height],
     active |-> 0,
     cells |-> <<buf, [i \in 1..(width * height) |-> Dead]>>]

NoCall == [op |-> "none", args |-> <<>>, panic |-> FALSE]
NoSeed == [buf |-> <<>>, at |-> 0]
NoUniverse == [size |-> [width |-> 0, height |-> 0], active |-> 0, cells |-> <<<<>>, <<>>>>]

\* Universe::build
Init ==
    /\ builder = EmptyUniverse
    /\ size = NoUniverse.size
    /\ active = NoUniverse.active
    /\ cells = NoUniverse.cells
    /\ last = NoCall
    /\ prev = [active |-> NoUniverse.active, cells |-> NoUniverse.cells, call |-> NoCall]
    /\ ticks = 0
    /\ edits = 0
    /\ seed = NoSeed

Running == last.panic = FALSE
Built == builder.stage = "Universe"

Called(op, args, panic) == [op |-> op, args |-> args, panic |-> panic]

\* UniverseBuilder<EmptyUniverse>::with_width
EmptyUniverse_with_width(dims) ==
    /\ Running /\ builder.stage = "EmptyUniverse"
    /\ \E width \in dims :
           /\ builder' = UniverseWithWidth(width)
           /\ last' = Called("with_width", <<width>>, FALSE)
    /\ prev' = [active |-> active, cells |-> cells, call |-> last]
    /\ UNCHANGED <<size, active, cells, ticks, edits, seed>>

\* UniverseBuilder<EmptyUniverse>::with_height
EmptyUniverse_with_height(dims) ==
    /\ Running /\ builder.stage = "EmptyUniverse"
    /\ \E height \in dims :
           /\ builder' = UniverseWithHeight(height)
           /\ last' = Called("with_height", <<height>>, FALSE)
    /\ prev' = [active |-> active, cells |-> cells, call |-> last]
    /\ UNCHANGED <<size, active, cells, ticks, edits, seed>>

\* UniverseBuilder<UniverseWithWidth>::with_height
UniverseWithWidth_with_height(dims) ==
    /\ Running /\ builder.stage = "UniverseWithWidth"
    /\ \E height \in dims :
           /\ builder' = ScaledUniverse(builder.width, height)
           /\ last' = Called("with_height", <<height>>, FALSE)
    /\ prev' = [active |-> active, cells |-> cells, call |-> last]
    /\ UNCHANGED <<size, active, cells, ticks, edits, seed>>

\* UniverseBuilder<UniverseWithHeight>::with_width
UniverseWithHeight_with_width(dims) ==
    /\ Running /\ builder.stage = "UniverseWithHeight"
    /\ \E width \in dims :
           /\ builder' = ScaledUniverse(width, builder.height)
           /\ last' = Called("with_width", <<width>>, FALSE)
    /\ prev' = [active |-> active, cells |-> cells, call |-> last]
    /\ UNCHANGED <<size, active, cells, ticks, edits, seed>>

Finalize(op, buf) ==
    LET u == NewUniverse(builder.width, builder.height, buf)
    IN  /\ builder' = Finalized(op)
        /\ size' = u.size
        /\ active' = u.active
        /\ cells' = u.cells
        /\ last' = Called(op, <<>>, FALSE)
        /\ prev' = [active |-> active, cells |-> cells, call |-> last]
        /\ UNCHANGED <<ticks, edits, seed>>

Random ==
    /\ Running /\ builder.stage = "ScaledUniverse"
    /\ builder.width * builder.height <= MaxRandomCells
    /\ \E draws \in [1..(builder.width * builder.height) -> BOOLEAN] :
           Finalize("random", random(builder.width, builder.height, draws))

Empty ==
    /\ Running /\ builder.stage = "ScaledUniverse"
    /\ Finalize("empty", empty(builder.width, builder.height))

Default ==
    /\ Running /\ builder.stage = "ScaledUniverse"
    /\ Finalize("default", default(builder.width, builder.height))

\* tick taking every selector above 1 for 1
Tick_clamped(maxTicks) ==
    /\ Running /\ Built /\ ticks < maxTicks
    /\ \E wild \in Cell :
           LET t == tick(size, IF active > 1 THEN 1 ELSE active, cells, wild)
           IN  /\ active' = t.active
               /\ cells' = t.cells
               /\ last' = Called("tick", <<>>, t.panic)
    /\ prev' = [active |-> active, cells |-> cells, call |-> last]
    /\ ticks' = ticks + 1
    /\ UNCHANGED <<builder, size, edits, seed>>

Tick(maxTicks) ==
    /\ Running /\ Built /\ ticks < maxTicks
    /\ \E wild \in Cell :
           LET t == tick(size, active, cells, wild)
           IN  /\ active' = t.active
               /\ cells' = t.cells
               /\ last' = Called("tick", <<>>, t.panic)
    /\ prev' = [active |-> active, cells |-> cells, call |-> last]
    /\ ticks' = ticks + 1
    /\ UNCHANGED <<builder, size, edits, seed>>

ToggleCell ==
    /\ Running /\ Built /\ edits < MaxEdits
    /\ \E row \in 0..MaxDim, col \in 0..MaxDim :
           LET t == toggle_cell(size, active, cells, row, col)
           IN  /\ cells' = t.cells
               /\ last' = Called("toggle_cell", <<row, col>>, t.panic)
    /\ prev' = [active |-> active, cells |-> cells, call |-> last]
    /\ edits' = edits + 1
    /\ UNCHANGED <<builder, size, active, ticks, seed>>

\* Universe::set_cells with a list drawn from `lists`
SetCells(lists, maxEdits) ==
    /\ Running /\ Built /\ edits < maxEdits
    /\ \E list \in lists :
           LET t == set_cells(size, active, cells, list)
           IN  /\ cells' = t.cells
               /\ last' = Called("set_cells", list, t.panic)
               /\ seed' = [buf |-> get_cells(active, t.cells), at |-> ticks]
    /\ prev' = [active |-> active, cells |-> cells, call |-> last]
    /\ edits' = edits + 1
    /\ UNCHANGED <<builder, size, active, ticks>>

\* the rows and columns of a sz grid
Rows(sz) == 0..(sz.height - 1)
Cols(sz) == 0..(sz.width - 1)
InBounds(sz, row, col) == row \in Rows(sz) /\ col \in Cols(sz)

Next ==
    \/ EmptyUniverse_with_width(0..MaxDim)
    \/ EmptyUniverse_with_height(0..MaxDim)
    \/ UniverseWithWidth_with_height(0..MaxDim)
    \/ UniverseWithHeight_with_width(0..MaxDim)
    \/ Random
    \/ Empty
    \/ Default
    \/ Tick(MaxTicks)
    \/ ToggleCell

Spec == Init /\ [][Next]_vars

\* ---------------------------------------------------------------- host
\* Display::fmt writes one char per cell and a line feed per chunk
symbol(cell) == IF cell = Alive THEN "U+25FC" ELSE "U+25FB"
LineFeed == "LF"

\* slice::chunks(chunk_size) of a non-empty chunk_size: the pieces in order,
\* here each already written out as its symbols followed by the line feed
RECURSIVE chunks(_, _)
chunks(buf, chunk_size) ==
    IF buf = <<>> THEN <<>>
    ELSE LET n == IF chunk_size < Len(buf) THEN chunk_size ELSE Len(buf)
         IN  [i \in 1..n |-> symbol(buf[i])] \o <<LineFeed>>
             \o chunks(SubSeq(buf, n + 1, Len(buf)), chunk_size)

\* <Universe as Display>::fmt, the string as the sequence of its chars;
\* chunks panics when the chunk size is 0
fmt(sz, buf) ==
    LET chunk_size == sz.width \div 8
    IN  IF chunk_size = 0
        THEN [panic |-> TRUE, out |-> <<>>]
        ELSE [panic |-> FALSE, out |-> chunks(buf, chunk_size)]

\* A query leaves the Universe alone; the value it returns is recorded in
\* the args of the call.
Query(op, result, panic) ==
    /\ last' = Called(op, result, panic)
    /\ prev' = [active |-> active, cells |-> cells, call |-> last]
    /\ UNCHANGED <<builder, size, active, cells, ticks, edits, seed>>

\* Universe::render
Render ==
    /\ Running /\ Built
    /\ LET r == fmt(size, get_cells(active, cells))
       IN  Query("render", r.out, r.panic)

\* `as u32`: the low 32 bits, taken 16 at a time
as_u32(n) == ((n \div 65536) % 65536) * 65536 + (n % 65536)

\* Universe::width
Width ==
    /\ Running /\ Built
    /\ Query("width", <<as_u32(size.width)>>, FALSE)

\* Universe::height
Height ==
    /\ Running /\ Built
    /\ Query("height", <<as_u32(size.height)>>, FALSE)

\* Universe::cells: the address of the active buffer, named by its index
CellsPtr ==
    /\ Running /\ Built
    /\ Query("cells", <<active>>, FALSE)

\* the coordinate lists the host passes to set_cells
RECURSIVE ListsUpTo(_, _)
ListsUpTo(pairs, n) ==
    IF n = 0 THEN {<<>>}
    ELSE LET shorter == ListsUpTo(pairs, n - 1)
         IN  shorter \cup {Append(l, p) : l \in {x \in shorter : Len(x) = n - 1}, p \in pairs}
HostWidths == (0..MaxDim) \cup {MaxHostWidth}
HostLists == ListsUpTo((0..MaxDim) \X (0..MaxDim), MaxCoords)

NextHost ==
    \/ EmptyUniverse_with_width(HostWidths)
    \/ EmptyUniverse_with_height(0..MaxDim)
    \/ UniverseWithWidth_with_height(0..MaxDim)
    \/ UniverseWithHeight_with_width(HostWidths)
    \/ Random
    \/ Empty
    \/ Default
    \/ Tick(MaxTicks)
    \/ ToggleCell
    \/ SetCells(HostLists, MaxSets)
    \/ Render
    \/ Width
    \/ Height
    \/ CellsPtr

SpecHost == Init /\ [][NextHost]_vars

\* ------------------------------------------------------------ selector
\* tick applied to a Universe value whose fields hold anything their types
\* allow: `active` is a usize, so it may be any number, not only 0 or 1.
Buffers(n) == [1..n -> Cell]

InitSelector ==
    /\ builder = Finalized("none")
    /\ size \in {[width |-> w, height |-> h] :
                    <<w, h>> \in {d \in (1..MaxDim) \X (1..MaxDim) :
                                     d[1] * d[2] <= MaxRandomCells}}
    /\ cells \in Buffers(size.width * size.height) \X Buffers(size.width * size.height)
    /\ active \in 0..MaxSelector
    /\ last = NoCall
    /\ prev = [active |-> active, cells |-> cells, call |-> NoCall]
    /\ ticks = 0
    /\ edits = 0
    /\ seed = NoSeed

NextSelector == Tick(MaxTicks)

SpecSelector == InitSelector /\ [][NextSelector]_vars

\* ------------------------------------------------------------- shapes
\* The coordinate lists a host seeds an empty grid with before running it.
BlockList(r, c) == << <<r, c>>, <<r, c + 1>>, <<r + 1, c>>, <<r + 1, c + 1>> >>
BlinkerHList(r, c) == << <<r, c - 1>>, <<r, c>>, <<r, c + 1>> >>
BlinkerVList(r, c) == << <<r - 1, c>>, <<r, c>>, <<r + 1, c>> >>
\* the standard glider with its 3x3 box at (r, c), wrapped onto the torus
GliderList(sz, r, c) ==
    << <<r % sz.height, (c + 1) % sz.width>>,
       <<(r + 1) % sz.height, (c + 2) % sz.width>>,
       <<(r + 2) % sz.height, c % sz.width>>,
       <<(r + 2) % sz.height, (c + 1) % sz.width>>,
       <<(r + 2) % sz.height, (c + 2) % sz.width>> >>

Range(list) == {list[k] : k \in 1..Len(list)}

\* the buffer of a sz grid whose Alive cells are exactly those listed
BufferOf(sz, list) ==
    [i \in 1..(sz.width * sz.height) |->
        IF <<(i - 1) \div sz.width, (i - 1) % sz.width>> \in Range(list)
        THEN Alive ELSE Dead]

\* a 2x2 block with top-left corner (r, c) touching no edge of the grid
BlockFits(sz, r, c) ==
    /\ sz.width >= 4 /\ sz.height >= 4
    /\ r >= 1 /\ r + 1 <= sz.height - 2
    /\ c >= 1 /\ c + 1 <= sz.width - 2
\* a blinker whose centre (r, c) is at least two cells from every edge
BlinkerFits(sz, r, c) ==
    /\ r >= 2 /\ r <= sz.height - 3
    /\ c >= 2 /\ c <= sz.width - 3
\* a grid large enough for the glider not to meet itself around the torus
GliderFits(sz) == sz.width >= 5 /\ sz.height >= 5

ShapeLists(sz) ==
    {BlockList(r, c) : <<r, c>> \in {p \in Rows(sz) \X Cols(sz) : BlockFits(sz, p[1], p[2])}}
    \cup {BlinkerHList(r, c) :
              <<r, c>> \in {p \in Rows(sz) \X Cols(sz) : BlinkerFits(sz, p[1], p[2])}}
    \cup {GliderList(sz, r, c) :
              <<r, c>> \in {p \in Rows(sz) \X Cols(sz) : GliderFits(sz)}}

\* A host that builds an empty grid, seeds one shape and runs it.
NextShapes ==
    \/ EmptyUniverse_with_width(0..MaxShapeDim)
    \/ EmptyUniverse_with_height(0..MaxShapeDim)
    \/ UniverseWithWidth_with_height(0..MaxShapeDim)
    \/ UniverseWithHeight_with_width(0..MaxShapeDim)
    \/ Empty
    \/ SetCells(ShapeLists(size), 1)
    \/ Tick(MaxShapeTicks)

SpecShapes == Init /\ [][NextShapes]_vars

\* ------------------------------------------------------------- claims
ActiveCells == get_cells(active, cells)
PrevCells == get_cells(prev.active, prev.cells)
Ticked == Built /\ last.op = "tick" /\ last.panic = FALSE
AllDead(buf) == \A i \in 1..Len(buf) : buf[i] = Dead

\* C1: after one tick of a grid with width >= 1 and height >= 1, the new
\* active cell at r*width+c is the Life rule applied to the old active cell
\* at (r,c) and the number of Alive cells among the 8 toroidal neighbours of
\* that same cell (r,c).
C1_TickAppliesRuleAtEachCell ==
    (/\ Ticked
     /\ size.width >= 1 /\ size.height >= 1
     /\ Len(PrevCells) = size.width * size.height)
    => \A r \in Rows(size), c \in Cols(size) :
           At(ActiveCells, get_index(size, r, c))
               = next_cell(At(PrevCells, get_index(size, r, c)),
                           live_neighbor_count(size, PrevCells, r, c, Dead))

\* C2: in every state of a finalized grid both buffers have length exactly
\* width*height.
C2_BufferLengths ==
    Built => /\ Len(cells[active + 1]) = size.width * size.height
             /\ Len(cells[(1 - active) + 1]) = size.width * size.height

\* C3: a 2x2 block of Alive cells touching no edge of a grid of at least 4x4,
\* Dead elsewhere, is unchanged by one tick.
C3_BlockIsStill ==
    (/\ Ticked
     /\ \E r \in Rows(size), c \in Cols(size) :
            BlockFits(size, r, c) /\ PrevCells = BufferOf(size, BlockList(r, c)))
    => ActiveCells = PrevCells

\* C4: a horizontal blinker whose centre is at least two cells from every
\* edge is the vertical blinker after one tick and the horizontal one again
\* after two.
C4_BlinkerOscillates ==
    \A r \in Rows(size), c \in Cols(size) :
        (/\ Built /\ last.panic = FALSE
         /\ BlinkerFits(size, r, c)
         /\ seed.buf = BufferOf(size, BlinkerHList(r, c)))
        => /\ ticks - seed.at = 1 => ActiveCells = BufferOf(size, BlinkerVList(r, c))
           /\ ticks - seed.at = 2 => ActiveCells = BufferOf(size, BlinkerHList(r, c))

\* C5: the standard glider, after exactly 4 ticks, is the same shape moved
\* by one row and one column around the torus, and nothing else is Alive.
C5_GliderTravels ==
    \A r \in Rows(size), c \in Cols(size) :
        (/\ Built /\ last.panic = FALSE
         /\ GliderFits(size)
         /\ seed.buf = BufferOf(size, GliderList(size, r, c))
         /\ ticks - seed.at = 4)
        => ActiveCells = BufferOf(size, GliderList(size, r + 1, c + 1))

\* C6: a grid finalized with empty() is all Dead, and stays all Dead through
\* any number of ticks with no toggle or set_cells in between.
C6_EmptyStaysDead ==
    (Built /\ builder.by = "empty" /\ edits = 0)
    => /\ Len(ActiveCells) = size.width * size.height
       /\ AllDead(ActiveCells)
C6_Witness ==
    /\ Built /\ builder.by = "empty" /\ edits = 0
    /\ last.op = "tick" /\ ticks >= 2
    /\ size.width >= 2 /\ size.height >= 2

\* C7: two grids with the same dimensions and identical initial buffers have
\* identical active buffers after the same number k of ticks, for every k.
\* Stated as the step that carries it from k to k + 1: in every state a run
\* of ticks (and edits) reaches, a tick has exactly one outcome - selector,
\* both buffers, panic or not - whatever an unchecked read outside the
\* buffer would yield in this build.
C7_TicksAreDeterministic ==
    Built => \A wild \in Cell :
                 tick(size, active, cells, wild) = tick(size, active, cells, Dead)
C7_Witness ==
    /\ Ticked /\ ticks >= 2
    /\ size.width >= 2 /\ size.height >= 2
    /\ Len(PrevCells) = size.width * size.height
    /\ ActiveCells # PrevCells

C9_ToggleOutOfBoundsFails ==
    (/\ Built /\ last.op = "toggle_cell"
     /\ ~InBounds(size, last.args[1], last.args[2]))
    => /\ last.panic = TRUE
       /\ cells = prev.cells

\* C10: in neighbour counting the north neighbour of (0, c) is (height-1, c),
\* the south neighbour of (height-1, c) is (0, c), the west neighbour of
\* (r, 0) is (r, width-1) and the east neighbour of (r, width-1) is (r, 0).
C10_ToroidalNeighbours ==
    (Built /\ size.width >= 1 /\ size.height >= 1)
    => /\ \A c \in Cols(size) :
              /\ neighbors(size, 0, c)[2] = <<size.height - 1, c>>
              /\ neighbors(size, size.height - 1, c)[7] = <<0, c>>
       /\ \A r \in Rows(size) :
              /\ neighbors(size, r, 0)[4] = <<r, size.width - 1>>
              /\ neighbors(size, r, size.width - 1)[5] = <<r, 0>>
C10_Witness ==
    /\ Ticked
    /\ size.width >= 2 /\ size.height >= 2
    /\ Len(PrevCells) = size.width * size.height
    /\ \E i \in 1..Len(PrevCells) : PrevCells[i] = Alive

JustFinalized == Built /\ last.op \in {"random", "empty", "default"}
IdleCells == cells[(1 - active) + 1]

\* C11: a grid finalized with the patterned initializer has, for every
\* linear index i in 0..width*height-1, the active cell at i Alive iff i is
\* even or a multiple of 7.
C11_PatternedCells ==
    (Built /\ last.op = "default")
    => /\ Len(ActiveCells) = size.width * size.height
       /\ \A i \in 0..(size.width * size.height - 1) :
              At(ActiveCells, i) = Alive <=> (i % 2 = 0 \/ i % 7 = 0)

\* C12: a grid finalized with random() has, whatever the draws, an active
\* buffer of exactly width*height cells, each Dead or Alive.
C12_RandomBuffer ==
    (Built /\ last.op = "random")
    => /\ Len(ActiveCells) = size.width * size.height
       /\ \A i \in 1..Len(ActiveCells) : ActiveCells[i] \in Cell
C12_Witness ==
    /\ Built /\ last.op = "random"
    /\ size.width >= 2 /\ size.height >= 2
    /\ \E i, j \in 1..Len(ActiveCells) : ActiveCells[i] = Alive /\ ActiveCells[j] = Dead

\* C13: immediately after any finalize operation the active selector is 0
\* and the idle buffer exists with every cell Dead.
C13_FreshGrid ==
    JustFinalized
    => /\ active = 0
       /\ Len(cells) = 2
       /\ Len(IdleCells) = size.width * size.height
       /\ AllDead(IdleCells)
C13_Witness ==
    /\ JustFinalized /\ last.op = "random"
    /\ size.width >= 2 /\ size.height >= 2
    /\ \E i \in 1..Len(ActiveCells) : ActiveCells[i] = Alive

\* C16: every grid the construction protocol can produce has width >= 1 and
\* height >= 1.
C16_PositiveDimensions ==
    Built => size.width >= 1 /\ size.height >= 1

\* the call that supplied the width / the height, among the two calls made
\* before a finalize operation
Supplied(op) ==
    IF last.op = op THEN last.args[1] ELSE prev.call.args[1]

\* C17: a finalize operation occurs only in the Ready stage (ScaledUniverse),
\* reached only after both with_width and with_height were applied, in
\* either order; the stages only move forward Unconfigured -> WidthOnly or
\* HeightOnly -> Ready; and the finalized grid's width and height are the
\* two values supplied.
C17_StagedConstruction ==
    [][/\ builder'.stage # builder.stage
          => <<builder.stage, builder'.stage>> \in
                 { <<"EmptyUniverse", "UniverseWithWidth">>,
                   <<"EmptyUniverse", "UniverseWithHeight">>,
                   <<"UniverseWithWidth", "ScaledUniverse">>,
                   <<"UniverseWithHeight", "ScaledUniverse">>,
                   <<"ScaledUniverse", "Universe">> }
       /\ last'.op \in {"random", "empty", "default"}
          => /\ builder.stage = "ScaledUniverse"
             /\ {last.op, prev.call.op} = {"with_width", "with_height"}
             /\ size'.width = Supplied("with_width")
             /\ size'.height = Supplied("with_height")]_vars
C17_Witness ==
    /\ JustFinalized
    /\ prev.call.op = "with_width"
    /\ size.width = 1 /\ size.height = 2

\* C18: a tick writes only into the buffer that was idle before it: the
\* buffer that was active is unchanged when the tick returns, so the new idle
\* buffer holds the previous generation; width and height are unchanged.
C18_TickWritesIdleOnly ==
    [][(last'.op = "tick" /\ ticks' = ticks + 1)
       => /\ cells'[active + 1] = cells[active + 1]
          /\ size' = size
          /\ last'.panic = FALSE => cells'[(1 - active') + 1] = cells[active + 1]]_vars
C18_Witness ==
    /\ Ticked
    /\ size.width >= 2 /\ size.height >= 2
    /\ Len(PrevCells) = size.width * size.height
    /\ ActiveCells # PrevCells
    /\ IdleCells = PrevCells

\* idle contents of a twin grid: the all-Dead buffer of a fresh grid and,
\* when the idle buffer is as long as the active one, that buffer itself,
\* all Dead, all Alive and with every cell flipped
OtherIdle(idle) ==
    { [i \in 1..(size.width * size.height) |-> Dead] }
    \cup IF Len(idle) = Len(ActiveCells)
         THEN { idle,
                [i \in 1..Len(idle) |-> Dead],
                [i \in 1..Len(idle) |-> Alive],
                [i \in 1..Len(idle) |-> toggle(idle[i])] }
         ELSE {}

\* C20: the active buffer after a tick depends only on the active buffer
\* before it and on width and height: a grid with the same dimensions and
\* active contents but other idle contents, or the other selector value,
\* completes a tick exactly when this one does and has the same active
\* buffer after it.
C20_TickIgnoresIdleAndSelector ==
    Built
    => \A other \in OtherIdle(IdleCells), sel \in {0, 1} :
           LET twin == IF sel = 0 THEN <<ActiveCells, other>> ELSE <<other, ActiveCells>>
               mine == tick(size, active, cells, Dead)
               theirs == tick(size, sel, twin, Dead)
           IN  /\ mine.panic = theirs.panic
               /\ get_cells(mine.active, mine.cells) = get_cells(theirs.active, theirs.cells)

\* the cell of a buffer at (row, col)
CellAt(buf, row, col) == At(buf, get_index(size, row, col))

\* C14: after set_alive with a list of in-bounds pairs every listed cell is
\* Alive, every cell not listed is as it was, and applying the same list
\* again changes nothing.
C14_SetAliveSetsListed ==
    (Built /\ last.op = "set_cells"
       /\ \A p \in Range(last.args) : InBounds(size, p[1], p[2]))
    => /\ last.panic = FALSE
       /\ Len(ActiveCells) = Len(PrevCells)
       /\ \A row \in Rows(size), col \in Cols(size) :
              LET idx == get_index(size, row, col)
              IN  IF <<row, col>> \in Range(last.args)
                  THEN InRange(ActiveCells, idx) /\ At(ActiveCells, idx) = Alive
                  ELSE InRange(ActiveCells, idx)
                       => At(ActiveCells, idx) = At(PrevCells, idx)
       /\ set_cells(size, active, cells, last.args) = [panic |-> FALSE, cells |-> cells]

\* C15: render returns height lines, each of width glyphs followed by a
\* line feed, the glyph at (row, col) being the black square for an Alive
\* cell and the white square for a Dead one, for every width, those below
\* 8 included. Stated for grids of positive dimensions whose active buffer
\* has width * height cells.
C15_RenderIsGrid ==
    (Built /\ last.op = "render"
       /\ size.width >= 1 /\ size.height >= 1
       /\ Len(ActiveCells) = size.width * size.height)
    => /\ last.panic = FALSE
       /\ Len(last.args) = size.height * (size.width + 1)
       /\ \A row \in Rows(size) :
              /\ last.args[row * (size.width + 1) + size.width + 1] = LineFeed
              /\ \A col \in Cols(size) :
                     last.args[row * (size.width + 1) + col + 1]
                         = symbol(CellAt(ActiveCells, row, col))

\* C19: the selector is 0 or 1; every tick takes it from s to 1 - s;
\* toggle, set_alive, the queries and render leave it as it is; after k
\* ticks of a fresh grid it is k mod 2.
C19_SelectorAlternates ==
    [][/\ active \in {0, 1} /\ active' \in {0, 1}
       /\ last'.op = "tick" => active' = 1 - active
       /\ last'.op \in {"toggle_cell", "set_cells", "width", "height", "cells", "render"}
          => active' = active
       /\ Built' => active' = ticks' % 2]_vars

\* C21: in every grid reached through the builder and any ticks and edits,
\* every index the neighbour count reads from the active buffer during a
\* tick (eight reads for each cell the generation loop visits) is one of
\* 0..len(active)-1.
C21_NeighbourReadsInRange ==
    Built
    => \A idx \in 0..(Len(ActiveCells) - 1) :
           \A p \in Range(neighbors(size, tick_row(idx), tick_col(idx))) :
               InRange(ActiveCells, get_index(size, p[1], p[2]))
C21_Witness ==
    /\ Ticked /\ last.panic = FALSE
    /\ edits >= 1
    /\ size.width >= 2 /\ size.height >= 2
    /\ Len(PrevCells) = size.width * size.height
    /\ Len(ActiveCells) = size.width * size.height

\* C22: a tick started while the selector is neither 0 nor 1 panics, and
\* leaves every cell of both buffers and the selector as they were.
C22_BadSelectorAborts ==
    (last.op = "tick" /\ prev.active \notin {0, 1})
    => /\ last.panic = TRUE
       /\ cells = prev.cells
       /\ active = prev.active
C22_Witness ==
    /\ last.op = "tick" /\ last.panic = TRUE
    /\ prev.active >= 2
    /\ Len(cells[1]) = 4
    /\ \E i \in 1..4 : cells[1][i] = Alive /\ cells[2][i] = Dead

\* C23: for a width of at least 1, get_address(get_index(r, c)) = (r, c) for
\* every row r below the height and column c below the width, and
\* get_index(get_address(i)) = i for every index i below width * height.
C23_AddressRoundTrip ==
    (Built /\ size.width >= 1)
    => /\ \A r \in Rows(size), c \in Cols(size) :
              get_address(size, get_index(size, r, c)) = <<r, c>>
       /\ \A i \in 0..(size.width * size.height - 1) :
              LET a == get_address(size, i)
              IN  get_index(size, a[1], a[2]) = i
C23_Witness ==
    /\ Built
    /\ size.width >= 2 /\ size.height >= 2
    /\ size.width # size.height
    /\ get_address(size, get_index(size, size.height - 1, size.width - 1))
           = <<size.height - 1, size.width - 1>>

====
